---- MODULE Spec2Model ----
(***************************************************************************)
(* GearGuard: the maintenance-request lifecycle (RequestService), its      *)
(* audit log (LogService) and the equipment scrap flag (EquipmentService)  *)
(* over the Prisma store.                                                  *)
(*                                                                         *)
(* Spec      every service call runs to completion, no store failure.      *)
(* SpecFail  every service call runs to completion; one store write of the *)
(*           call may throw (the call then ends with the store's error).   *)
(* SpecConc  two updateStatus calls whose awaits interleave.               *)
(* SpecOrg   the request calls together with the user- and team-service   *)
(*           calls that change users and teams, and the request listing.   *)
(* SpecAuth  the authorization predicates of authHelpers and the access    *)
(*           check of getRequestById, applied to every actor and resource. *)
(* SpecSched the scheduling validation of a PREVENTIVE request on every    *)
(*           day of four calendar years.                                   *)
(* SpecRace  one createRequest whose awaits interleave with whole          *)
(*           scrapEquipment, scrapRequest and createRequest calls.          *)
(***************************************************************************)
EXTENDS Integers, Sequences, FiniteSets, TLC

\* ------------------------------------------------------------------ bounds
MaxRequests == 2
MaxEquipment == 1
MaxLogs == 3
MaxFaults == 1

\* ------------------------------------------------------- program constants
Null == 0                       \* null foreign key (ids autoincrement from 1)
NoStatus == "null"              \* RequestLog.oldStatus of the creation row
NoDuration == 0 - 99            \* durationHours null / not supplied
NoDate == 0 - 99                \* scheduledDate null / not supplied
Undefined == 0 - 1              \* a property the caller left out
NonExistentUserId == 0 - 1      \* getRequests: filters.assignedTo = -1
MaxFutureDays == 2 * 365        \* validatePreventiveMaintenanceScheduling

Statuses == {"NEW", "IN_PROGRESS", "REPAIRED", "SCRAP"}
Roles == {"ADMIN", "MANAGER", "TECHNICIAN"}
Types == {"CORRECTIVE", "PREVENTIVE"}

\* ------------------------------------------------------------ input sets
TeamIds == {1, 2}
MissingTeamId == CHOOSE t \in 1 .. (Cardinality(TeamIds) + 1) : t \notin TeamIds
UserIds == {1, 2, 3, 4}
MissingUserId == CHOOSE u \in 1 .. (Cardinality(UserIds) + 1) : u \notin UserIds
\* the seeded users (admin, manager and technician of the first team) and a
\* technician of the second team
SeedUsers ==
  (1 :> [role |-> "ADMIN", teamId |-> Null]) @@
  (2 :> [role |-> "MANAGER", teamId |-> 1]) @@
  (3 :> [role |-> "TECHNICIAN", teamId |-> 1]) @@
  (4 :> [role |-> "TECHNICIAN", teamId |-> 2])
AdminId == CHOOSE u \in UserIds : SeedUsers[u].role = "ADMIN"
\* the callers of the creating and assigning calls the actions take (the
\* routes admit ADMIN and MANAGER)
Creators == {2}
Assigners == {AdminId}
\* the callers of the interleaved updateStatus calls
ConcurrentUsers == {AdminId, 3}
EquipmentIdInputs == 1 .. (MaxEquipment + 1)
RequestIdInputs == 1 .. (MaxRequests + 1)
DurationInputs == {NoDuration, 0 - 1, 0, 2}
\* scheduledDate in days relative to the current day
DateInputs == {NoDate, 1}
FailPoints == {"none", "write", "log"}
ScrapFailPoints == {"none", "request", "equipment", "log"}
Procs == {1, 2}

VARIABLES
  teams,        \* prisma.team: the ids
  users,        \* prisma.user: id -> [role, teamId]
  equipment,    \* prisma.equipment: id -> [teamId, isScrapped]
  nextEquipmentId,
  requests,     \* prisma.maintenanceRequest: sequence indexed by id
  logs,         \* prisma.requestLog in append order
  last,         \* the service call that ended last and its outcome
  faults,       \* store writes that have thrown so far (SpecFail)
  procs,        \* the updateStatus calls in flight (SpecConc)
  auth,         \* the authHelpers predicate applied last and its answer (SpecAuth)
  sched,        \* the scheduling validation run last and its answer (SpecSched)
  creating      \* the createRequest call in flight (SpecRace)

vars == <<teams, users, equipment, nextEquipmentId, requests, logs, last, faults, procs,
          auth, sched, creating>>

\* --------------------------------------------------------------- helpers
RequestExists(reqs, id) == id \in 1 .. Len(reqs)
EquipmentExists(eqs, id) == id \in DOMAIN eqs
UserExists(us, id) == id \in DOMAIN us

LogsOf(ls, requestId) == SelectSeq(ls, LAMBDA l : l.requestId = requestId)

\* the record of a call: what was called, how it ended, the write that was
\* made to throw, and what the call found (the request's status, its
\* equipment's flag) when it began
NoCall ==
  [op |-> "none", result |-> "none", failAt |-> "none",
   oldStatus |-> NoStatus, wasScrapped |-> FALSE]

StatusBefore(reqs, requestId) ==
  IF RequestExists(reqs, requestId) THEN reqs[requestId].status ELSE NoStatus

ScrappedBefore(eqs, equipmentId) ==
  IF EquipmentExists(eqs, equipmentId) THEN eqs[equipmentId].isScrapped ELSE FALSE

EquipmentOf(reqs, requestId) ==
  IF RequestExists(reqs, requestId) THEN reqs[requestId].equipmentId ELSE Null

IdleProc ==
  [pc |-> "idle", requestId |-> Null, newStatus |-> NoStatus, userId |-> Null,
   status |-> NoStatus, assignedTo |-> Null, teamId |-> Null, result |-> "none"]

\* LogService.createLogEntry: the row it inserts
LogRow(requestId, oldStatus, newStatus, userId) ==
  [requestId |-> requestId, oldStatus |-> oldStatus,
   newStatus |-> newStatus, changedBy |-> userId]

\* a log writer that records no old status
createLogEntryWithoutOld(ls, requestId, oldStatus, newStatus, userId) ==
  Append(ls, LogRow(requestId, NoStatus, newStatus, userId))

\* a log writer that records the new status as the old one
createLogEntryOldIsNew(ls, requestId, oldStatus, newStatus, userId) ==
  Append(ls, LogRow(requestId, newStatus, newStatus, userId))

createLogEntry(ls, requestId, oldStatus, newStatus, userId) ==
  Append(ls, LogRow(requestId, oldStatus, newStatus, userId))

\* a table in which REPAIRED is not terminal
validTransitionsRepairedToScrap(currentStatus) ==
  CASE currentStatus = "NEW" -> {"IN_PROGRESS", "SCRAP"}
    [] currentStatus = "IN_PROGRESS" -> {"REPAIRED", "SCRAP"}
    [] currentStatus = "REPAIRED" -> {"SCRAP"}
    [] currentStatus = "SCRAP" -> {}
    [] OTHER -> {}

\* RequestService.validateStatusTransition: the table
validTransitions(currentStatus) ==
  CASE currentStatus = "NEW" -> {"IN_PROGRESS", "SCRAP"}
    [] currentStatus = "IN_PROGRESS" -> {"REPAIRED", "SCRAP"}
    [] currentStatus = "REPAIRED" -> {}
    [] currentStatus = "SCRAP" -> {}
    [] OTHER -> {}

validateStatusTransition(currentStatus, newStatus) ==
  IF newStatus \in validTransitions(currentStatus)
  THEN "ok" ELSE "INVALID_STATUS_TRANSITION"

\* RequestService.validatePreventiveMaintenanceScheduling, dates in whole
\* days relative to the current day (0 = today)
validatePreventiveMaintenanceScheduling(type, scheduledDate) ==
  IF type = "PREVENTIVE"
  THEN IF scheduledDate = NoDate THEN "VALIDATION_ERROR"
       ELSE IF scheduledDate < 0 THEN "VALIDATION_ERROR"
       ELSE IF scheduledDate > MaxFutureDays THEN "VALIDATION_ERROR"
       ELSE "ok"
  ELSE IF type = "CORRECTIVE" /\ scheduledDate # NoDate /\ scheduledDate > 0
       THEN "VALIDATION_ERROR"
       ELSE "ok"

\* role checks that let any technician of the request's team update it
updateStatusPermissionTeamTechnician(user, userId, request, newStatus) ==
  IF user.role = "TECHNICIAN"
  THEN IF request.assignedTo # userId /\ user.teamId # request.teamId
       THEN "INSUFFICIENT_PERMISSIONS"
       ELSE IF newStatus \notin {"REPAIRED", "SCRAP"}
            THEN "INVALID_STATUS_TRANSITION"
            ELSE "ok"
  ELSE IF user.role = "MANAGER"
       THEN IF user.teamId # request.teamId THEN "TEAM_ACCESS_DENIED" ELSE "ok"
       ELSE "ok"

\* RequestService.updateStatus: the role checks after the user is loaded
updateStatusPermission(user, userId, request, newStatus) ==
  IF user.role = "TECHNICIAN"
  THEN IF request.assignedTo # userId THEN "INSUFFICIENT_PERMISSIONS"
       ELSE IF newStatus \notin {"REPAIRED", "SCRAP"}
            THEN "INVALID_STATUS_TRANSITION"
            ELSE "ok"
  ELSE IF user.role = "MANAGER"
       THEN IF user.teamId # request.teamId THEN "TEAM_ACCESS_DENIED" ELSE "ok"
       ELSE "ok"

\* role checks that let a manager of another team complete the request
completePermissionAnyManager(user, userId, request) ==
  IF user.role = "TECHNICIAN" /\ request.assignedTo # userId
  THEN "INSUFFICIENT_PERMISSIONS"
  ELSE "ok"

\* RequestService.completeRequest / scrapRequest: the role checks
completePermission(user, userId, request) ==
  IF user.role = "TECHNICIAN" /\ request.assignedTo # userId
  THEN "INSUFFICIENT_PERMISSIONS"
  ELSE IF user.role = "MANAGER" /\ user.teamId # request.teamId
       THEN "TEAM_ACCESS_DENIED"
       ELSE "ok"

scrapPermission(user, userId, request) ==
  IF user.role = "TECHNICIAN" /\ request.assignedTo # userId
  THEN "INSUFFICIENT_PERMISSIONS"
  ELSE IF user.role = "MANAGER" /\ user.teamId # request.teamId
       THEN "TEAM_ACCESS_DENIED"
       ELSE "ok"

\* an outcome of a service call: its result and the store it leaves
Outcome(result, eqs, reqs, ls) ==
  [result |-> result, equipment |-> eqs, requests |-> reqs, logs |-> ls]

\* ------------------------------------------------------ EquipmentService
\* EquipmentService.createEquipment (name, serial number, department,
\* location and dates are attributes no lifecycle operation reads)
createEquipment(ts, eqs, nextId, teamId) ==
  IF teamId \notin ts THEN Outcome("TEAM_NOT_FOUND", eqs, <<>>, <<>>)
  ELSE Outcome("ok", eqs @@ (nextId :> [teamId |-> teamId, isScrapped |-> FALSE]),
               <<>>, <<>>)

\* an update that does not look at the scrapped flag
updateEquipmentOfScrapped(ts, eqs, equipmentId, teamId) ==
  IF ~EquipmentExists(eqs, equipmentId)
  THEN Outcome("EQUIPMENT_NOT_FOUND", eqs, <<>>, <<>>)
  ELSE IF teamId # Null /\ teamId # eqs[equipmentId].teamId /\ teamId \notin ts
  THEN Outcome("TEAM_NOT_FOUND", eqs, <<>>, <<>>)
  ELSE Outcome("ok",
         [eqs EXCEPT ![equipmentId].teamId = IF teamId # Null THEN teamId ELSE @],
         <<>>, <<>>)

\* EquipmentService.updateEquipment; Null stands for a teamId left undefined
updateEquipment(ts, eqs, equipmentId, teamId) ==
  IF ~EquipmentExists(eqs, equipmentId)
  THEN Outcome("EQUIPMENT_NOT_FOUND", eqs, <<>>, <<>>)
  ELSE IF eqs[equipmentId].isScrapped
  THEN Outcome("EQUIPMENT_SCRAPPED", eqs, <<>>, <<>>)
  ELSE IF teamId # Null /\ teamId # eqs[equipmentId].teamId /\ teamId \notin ts
  THEN Outcome("TEAM_NOT_FOUND", eqs, <<>>, <<>>)
  ELSE Outcome("ok",
         [eqs EXCEPT ![equipmentId].teamId = IF teamId # Null THEN teamId ELSE @],
         <<>>, <<>>)

\* EquipmentService.scrapEquipment
scrapEquipment(eqs, equipmentId) ==
  IF ~EquipmentExists(eqs, equipmentId)
  THEN Outcome("EQUIPMENT_NOT_FOUND", eqs, <<>>, <<>>)
  ELSE IF eqs[equipmentId].isScrapped
  THEN Outcome("VALIDATION_ERROR", eqs, <<>>, <<>>)
  ELSE Outcome("ok", [eqs EXCEPT ![equipmentId].isScrapped = TRUE], <<>>, <<>>)

\* EquipmentService.deleteEquipment
deleteEquipment(eqs, reqs, equipmentId) ==
  IF ~EquipmentExists(eqs, equipmentId)
  THEN Outcome("EQUIPMENT_NOT_FOUND", eqs, <<>>, <<>>)
  ELSE IF \E r \in 1 .. Len(reqs) : reqs[r].equipmentId = equipmentId
  THEN Outcome("VALIDATION_ERROR", eqs, <<>>, <<>>)
  ELSE Outcome("ok", [e \in DOMAIN eqs \ {equipmentId} |-> eqs[e]], <<>>, <<>>)

\* -------------------------------------------------------- RequestService
\* a created row that does not take the equipment's team
NewRequestWithoutTeam(equipmentId, teamId) ==
  [status |-> "NEW", equipmentId |-> equipmentId, teamId |-> Null,
   assignedTo |-> Null, durationHours |-> NoDuration]

\* the row prisma.maintenanceRequest.create inserts in createRequest
\* (subject, description, type, scheduledDate and createdBy are attributes no
\* lifecycle operation reads; the creator is kept by the creation log row)
NewRequest(equipmentId, teamId) ==
  [status |-> "NEW", equipmentId |-> equipmentId, teamId |-> teamId,
   assignedTo |-> Null, durationHours |-> NoDuration]

\* an equipment check that lets scrapped equipment through
validateEquipmentIgnoringScrap(eqs, equipmentId) ==
  IF ~EquipmentExists(eqs, equipmentId) THEN "EQUIPMENT_NOT_FOUND" ELSE "ok"

\* RequestService.createRequest: the two checks on the equipment row it loads
validateEquipment(eqs, equipmentId) ==
  IF ~EquipmentExists(eqs, equipmentId) THEN "EQUIPMENT_NOT_FOUND"
  ELSE IF eqs[equipmentId].isScrapped THEN "EQUIPMENT_SCRAPPED"
  ELSE "ok"

\* RequestService.createRequest
createRequest(us, eqs, reqs, ls, type, equipmentId, scheduledDate, createdBy, fail) ==
  IF validatePreventiveMaintenanceScheduling(type, scheduledDate) # "ok"
  THEN Outcome("VALIDATION_ERROR", eqs, reqs, ls)
  ELSE IF validateEquipment(eqs, equipmentId) # "ok"
  THEN Outcome(validateEquipment(eqs, equipmentId), eqs, reqs, ls)
  ELSE IF ~UserExists(us, createdBy)
  THEN Outcome("USER_NOT_FOUND", eqs, reqs, ls)
  ELSE IF fail = "write"
  THEN Outcome("STORE_ERROR", eqs, reqs, ls)
  ELSE LET created == Append(reqs, NewRequest(equipmentId, eqs[equipmentId].teamId))
       IN IF fail = "log"
          THEN Outcome("STORE_ERROR", eqs, created, ls)
          ELSE Outcome("ok", eqs, created,
                       createLogEntry(ls, Len(created), NoStatus, "NEW", createdBy))

\* a check of the assignee that does not compare the teams
validateTechnicianAnyTeam(technician, request) ==
  IF technician.role # "TECHNICIAN" THEN "VALIDATION_ERROR" ELSE "ok"

\* RequestService.assignRequest: the two checks on the user row it loads
validateTechnician(technician, request) ==
  IF technician.role # "TECHNICIAN" THEN "VALIDATION_ERROR"
  ELSE IF technician.teamId # request.teamId THEN "TEAM_ASSIGNMENT_MISMATCH"
  ELSE "ok"

\* RequestService.assignRequest
assignRequest(us, eqs, reqs, ls, requestId, technicianId, assignedBy, fail) ==
  IF ~RequestExists(reqs, requestId)
  THEN Outcome("REQUEST_NOT_FOUND", eqs, reqs, ls)
  ELSE IF ~UserExists(us, technicianId)
  THEN Outcome("USER_NOT_FOUND", eqs, reqs, ls)
  ELSE IF validateTechnician(us[technicianId], reqs[requestId]) # "ok"
  THEN Outcome(validateTechnician(us[technicianId], reqs[requestId]), eqs, reqs, ls)
  ELSE IF fail = "write"
  THEN Outcome("STORE_ERROR", eqs, reqs, ls)
  ELSE LET updated == [reqs EXCEPT ![requestId].assignedTo = technicianId,
                                   ![requestId].status = "IN_PROGRESS"]
       IN IF fail = "log"
          THEN Outcome("STORE_ERROR", eqs, updated, ls)
          ELSE Outcome("ok", eqs, updated,
                       createLogEntry(ls, requestId, reqs[requestId].status,
                                      "IN_PROGRESS", assignedBy))

\* an updateStatus that writes the status before it checks the caller
updateStatusWriteFirst(us, eqs, reqs, ls, requestId, newStatus, userId, fail) ==
  IF ~RequestExists(reqs, requestId)
  THEN Outcome("REQUEST_NOT_FOUND", eqs, reqs, ls)
  ELSE IF validateStatusTransition(reqs[requestId].status, newStatus) # "ok"
  THEN Outcome("INVALID_STATUS_TRANSITION", eqs, reqs, ls)
  ELSE LET updated == [reqs EXCEPT ![requestId].status = newStatus]
       IN IF ~UserExists(us, userId)
          THEN Outcome("USER_NOT_FOUND", eqs, updated, ls)
          ELSE IF updateStatusPermission(us[userId], userId, reqs[requestId],
                                         newStatus) # "ok"
          THEN Outcome(updateStatusPermission(us[userId], userId, reqs[requestId],
                                              newStatus), eqs, updated, ls)
          ELSE Outcome("ok", eqs, updated,
                       createLogEntry(ls, requestId, reqs[requestId].status,
                                      newStatus, userId))

\* RequestService.updateStatus
updateStatus(us, eqs, reqs, ls, requestId, newStatus, userId, fail) ==
  IF ~RequestExists(reqs, requestId)
  THEN Outcome("REQUEST_NOT_FOUND", eqs, reqs, ls)
  ELSE IF validateStatusTransition(reqs[requestId].status, newStatus) # "ok"
  THEN Outcome("INVALID_STATUS_TRANSITION", eqs, reqs, ls)
  ELSE IF ~UserExists(us, userId)
  THEN Outcome("USER_NOT_FOUND", eqs, reqs, ls)
  ELSE IF updateStatusPermission(us[userId], userId, reqs[requestId], newStatus) # "ok"
  THEN Outcome(updateStatusPermission(us[userId], userId, reqs[requestId], newStatus),
               eqs, reqs, ls)
  ELSE IF fail = "write"
  THEN Outcome("STORE_ERROR", eqs, reqs, ls)
  ELSE LET updated == [reqs EXCEPT ![requestId].status = newStatus]
       IN IF fail = "log"
          THEN Outcome("STORE_ERROR", eqs, updated, ls)
          ELSE Outcome("ok", eqs, updated,
                       createLogEntry(ls, requestId, reqs[requestId].status,
                                      newStatus, userId))

\* a conversion that loses the duration
parseFloatToNull(durationHours) == NoDuration

\* parseFloat applied to a JSON number returns that number
parseFloat(durationHours) == durationHours

\* RequestService.completeRequest
completeRequest(us, eqs, reqs, ls, requestId, durationHours, userId, fail) ==
  IF ~RequestExists(reqs, requestId)
  THEN Outcome("REQUEST_NOT_FOUND", eqs, reqs, ls)
  ELSE IF reqs[requestId].status # "IN_PROGRESS"
  THEN Outcome("INVALID_STATUS_TRANSITION", eqs, reqs, ls)
  ELSE IF ~UserExists(us, userId)
  THEN Outcome("USER_NOT_FOUND", eqs, reqs, ls)
  ELSE IF completePermission(us[userId], userId, reqs[requestId]) # "ok"
  THEN Outcome(completePermission(us[userId], userId, reqs[requestId]), eqs, reqs, ls)
  ELSE IF durationHours = NoDuration \/ durationHours = 0 \/ durationHours <= 0
  THEN Outcome("VALIDATION_ERROR", eqs, reqs, ls)
  ELSE IF fail = "write"
  THEN Outcome("STORE_ERROR", eqs, reqs, ls)
  ELSE LET updated == [reqs EXCEPT ![requestId].status = "REPAIRED",
                                   ![requestId].durationHours = parseFloat(durationHours)]
       IN IF fail = "log"
          THEN Outcome("STORE_ERROR", eqs, updated, ls)
          ELSE Outcome("ok", eqs, updated,
                       createLogEntry(ls, requestId, reqs[requestId].status,
                                      "REPAIRED", userId))

\* a transaction that leaves the equipment row alone
cascadeScrapSkipped(eqs, equipmentId, wasScrapped) == eqs

\* scrapRequest: the equipment write inside the transaction, made only when
\* the equipment row read before the transaction was not scrapped
cascadeScrap(eqs, equipmentId, wasScrapped) ==
  IF ~wasScrapped THEN [eqs EXCEPT ![equipmentId].isScrapped = TRUE] ELSE eqs

\* scrapRequest: the prisma.$transaction block; a throw inside it rolls back
\* both of its writes
scrapTransaction(eqs, reqs, requestId, fail) ==
  IF fail \in {"request", "equipment"}
  THEN [committed |-> FALSE, equipment |-> eqs, requests |-> reqs]
  ELSE [committed |-> TRUE,
        equipment |-> cascadeScrap(eqs, reqs[requestId].equipmentId,
                                   eqs[reqs[requestId].equipmentId].isScrapped),
        requests |-> [reqs EXCEPT ![requestId].status = "SCRAP"]]

\* RequestService.scrapRequest
scrapRequest(us, eqs, reqs, ls, requestId, userId, fail) ==
  IF ~RequestExists(reqs, requestId)
  THEN Outcome("REQUEST_NOT_FOUND", eqs, reqs, ls)
  ELSE IF ~UserExists(us, userId)
  THEN Outcome("USER_NOT_FOUND", eqs, reqs, ls)
  ELSE IF scrapPermission(us[userId], userId, reqs[requestId]) # "ok"
  THEN Outcome(scrapPermission(us[userId], userId, reqs[requestId]), eqs, reqs, ls)
  ELSE LET tx == scrapTransaction(eqs, reqs, requestId, fail)
       IN IF ~tx.committed
          THEN Outcome("STORE_ERROR", eqs, reqs, ls)
          ELSE IF fail = "log"
          THEN Outcome("STORE_ERROR", tx.equipment, tx.requests, ls)
          ELSE Outcome("ok", tx.equipment, tx.requests,
                       createLogEntry(ls, requestId, reqs[requestId].status,
                                      "SCRAP", userId))

\* ---------------------------------------------------------- authHelpers
\* an actor as the helpers see it: null/undefined (defined = FALSE) or an
\* object with id, role (NoRole when the property is absent) and teamId
NoRole == ""
NullUser == [defined |-> FALSE, id |-> Null, role |-> NoRole, teamId |-> Null]
AuthUsers ==
  {NullUser} \cup
  [defined : {TRUE}, id : {3, 4}, role : Roles \cup {NoRole}, teamId : TeamIds \cup {Null}]

\* a request as the helpers see it: null/undefined or an object with the
\* teamId and assignedTo of a stored row
NullRequest == [defined |-> FALSE, teamId |-> Null, assignedTo |-> Null]
AuthRequests ==
  {NullRequest} \cup
  [defined : {TRUE}, teamId : TeamIds, assignedTo : {Null, 3, 4}]

TeamIdInputs == TeamIds \cup {Null}
RoleLists == {{"ADMIN"}, {"MANAGER"}, {"TECHNICIAN"}, {"ADMIN", "MANAGER"}}

NoAuth ==
  [predicate |-> "none", user |-> NullUser, request |-> NullRequest,
   teamId |-> Null, roles |-> {}, decision |-> FALSE]

hasRole(user, roles) ==
  IF ~user.defined \/ user.role = NoRole THEN FALSE ELSE user.role \in roles

isAdmin(user) == hasRole(user, {"ADMIN"})
isManager(user) == hasRole(user, {"MANAGER"})
isTechnician(user) == hasRole(user, {"TECHNICIAN"})
isAdminOrManager(user) == hasRole(user, {"ADMIN", "MANAGER"})

\* teamId is a number here, which parseInt returns as it is
belongsToTeam(user, teamId) ==
  IF ~user.defined \/ user.teamId = Null \/ teamId = Null THEN FALSE
  ELSE user.teamId = teamId

canAccessTeam(user, teamId) ==
  IF ~user.defined THEN FALSE
  ELSE IF isAdmin(user) THEN TRUE
  ELSE belongsToTeam(user, teamId)

canCreateRequests(user) == isAdminOrManager(user)
canAssignRequests(user) == isAdminOrManager(user)
canUpdateRequestStatus(user) == user.defined
canManageUsers(user) == isAdmin(user)
canManageEquipment(user) == isAdminOrManager(user)
canViewDashboard(user) == isAdminOrManager(user)
canScrapEquipment(user) == isAdminOrManager(user)

\* a view check that admits a technician only as the assignee
canViewRequestAssigneeOnly(user, request) ==
  IF ~user.defined \/ ~request.defined THEN FALSE
  ELSE IF isAdmin(user) THEN TRUE
  ELSE IF isManager(user) /\ belongsToTeam(user, request.teamId) THEN TRUE
  ELSE IF isTechnician(user) THEN request.assignedTo = user.id
  ELSE FALSE

canViewRequest(user, request) ==
  IF ~user.defined \/ ~request.defined THEN FALSE
  ELSE IF isAdmin(user) THEN TRUE
  ELSE IF isManager(user) /\ belongsToTeam(user, request.teamId) THEN TRUE
  ELSE IF isTechnician(user)
       THEN request.assignedTo = user.id \/ belongsToTeam(user, request.teamId)
  ELSE FALSE

\* a modify check that admits every technician of the request's team
canModifyRequestTeamTechnician(user, request) ==
  IF ~user.defined \/ ~request.defined THEN FALSE
  ELSE IF isAdmin(user) THEN TRUE
  ELSE IF isManager(user) /\ belongsToTeam(user, request.teamId) THEN TRUE
  ELSE IF isTechnician(user)
            /\ (request.assignedTo = user.id \/ belongsToTeam(user, request.teamId))
       THEN TRUE
  ELSE FALSE

canModifyRequest(user, request) ==
  IF ~user.defined \/ ~request.defined THEN FALSE
  ELSE IF isAdmin(user) THEN TRUE
  ELSE IF isManager(user) /\ belongsToTeam(user, request.teamId) THEN TRUE
  ELSE IF isTechnician(user) /\ request.assignedTo = user.id THEN TRUE
  ELSE FALSE

\* RequestController.getRequestById: the access check on the request the
\* service returned, for the req.user the authentication left
getRequestByIdAccess(user, request) ==
  IF user.role = "TECHNICIAN"
  THEN IF request.assignedTo # user.id /\ request.teamId # user.teamId
       THEN "ACCESS_DENIED" ELSE "ok"
  ELSE IF user.role = "MANAGER"
       THEN IF request.teamId # user.teamId THEN "TEAM_ACCESS_DENIED" ELSE "ok"
       ELSE "ok"

\* ------------------------------------------- UserService, TeamService
\* an outcome of a user- or team-service call
OrgOutcome(result, ts, us) == [result |-> result, teams |-> ts, users |-> us]

\* UserService.updateUser; NoRole stands for a role left undefined,
\* Undefined for a teamId left undefined, Null for teamId: null (name, email
\* and password are attributes no lifecycle operation reads)
updateUser(ts, us, userId, role, teamId) ==
  IF ~UserExists(us, userId) THEN OrgOutcome("USER_NOT_FOUND", ts, us)
  ELSE IF role # NoRole /\ role \notin Roles THEN OrgOutcome("INVALID_INPUT", ts, us)
  ELSE IF teamId # Undefined /\ teamId # Null /\ teamId \notin ts
  THEN OrgOutcome("TEAM_NOT_FOUND", ts, us)
  ELSE OrgOutcome("ok", ts,
         [us EXCEPT ![userId].role = IF role # NoRole THEN role ELSE @,
                    ![userId].teamId = IF teamId # Undefined THEN teamId ELSE @])

\* UserService.assignUserToTeam
assignUserToTeam(ts, us, userId, teamId) ==
  IF ~UserExists(us, userId) THEN OrgOutcome("USER_NOT_FOUND", ts, us)
  ELSE IF teamId \notin ts THEN OrgOutcome("TEAM_NOT_FOUND", ts, us)
  ELSE OrgOutcome("ok", ts, [us EXCEPT ![userId].teamId = teamId])

\* UserService.removeUserFromTeam
removeUserFromTeam(ts, us, userId) ==
  IF ~UserExists(us, userId) THEN OrgOutcome("USER_NOT_FOUND", ts, us)
  ELSE OrgOutcome("ok", ts, [us EXCEPT ![userId].teamId = Null])

\* UserService.deleteUser; prisma.user.delete throws on the required
\* relations RequestLog.user and MaintenanceRequest.creator (the creator of a
\* request is the user of its creation log row)
deleteUser(ts, us, reqs, ls, userId) ==
  IF ~UserExists(us, userId) THEN OrgOutcome("USER_NOT_FOUND", ts, us)
  ELSE IF \E r \in 1 .. Len(reqs) : reqs[r].assignedTo = userId
  THEN OrgOutcome("VALIDATION_ERROR", ts, us)
  ELSE IF \E l \in 1 .. Len(ls) : ls[l].changedBy = userId
  THEN OrgOutcome("STORE_ERROR", ts, us)
  ELSE OrgOutcome("ok", ts, [u \in DOMAIN us \ {userId} |-> us[u]])

\* a deletion that does not count the team's maintenance requests
deleteTeamIgnoringRequests(ts, us, eqs, reqs, teamId) ==
  IF teamId \notin ts THEN OrgOutcome("TEAM_NOT_FOUND", ts, us)
  ELSE IF \E u \in DOMAIN us : us[u].teamId = teamId
  THEN OrgOutcome("VALIDATION_ERROR", ts, us)
  ELSE IF \E e \in DOMAIN eqs : eqs[e].teamId = teamId
  THEN OrgOutcome("VALIDATION_ERROR", ts, us)
  ELSE OrgOutcome("ok", ts \ {teamId}, us)

\* TeamService.deleteTeam
deleteTeam(ts, us, eqs, reqs, teamId) ==
  IF teamId \notin ts THEN OrgOutcome("TEAM_NOT_FOUND", ts, us)
  ELSE IF \E u \in DOMAIN us : us[u].teamId = teamId
  THEN OrgOutcome("VALIDATION_ERROR", ts, us)
  ELSE IF \E e \in DOMAIN eqs : eqs[e].teamId = teamId
  THEN OrgOutcome("VALIDATION_ERROR", ts, us)
  ELSE IF \E r \in 1 .. Len(reqs) : reqs[r].teamId = teamId
  THEN OrgOutcome("VALIDATION_ERROR", ts, us)
  ELSE OrgOutcome("ok", ts \ {teamId}, us)

\* ------------------------------------------------- the request listing
\* the query of GET /api/requests; Null and NoStatus stand for a parameter
\* that is absent (page, limit, type, equipmentId and search only narrow the
\* rows returned)
Queries == [teamId : {Null, 2}, assignedTo : {Null, 4}, status : {NoStatus}]

\* RequestController.getRequests: the filters it hands to the service for
\* req.user
roleFilters(user, userId, query) ==
  IF user.role = "TECHNICIAN"
  THEN IF query.assignedTo # Null /\ query.assignedTo # userId
       THEN [query EXCEPT !.assignedTo = NonExistentUserId]
       ELSE IF query.assignedTo = Null
            THEN [query EXCEPT !.teamId = user.teamId]
            ELSE [query EXCEPT !.assignedTo = userId]
  ELSE IF user.role = "MANAGER" /\ user.teamId # Null
       THEN [query EXCEPT !.teamId = user.teamId]
       ELSE query

\* RequestService.getRequests: the ids of the rows its where clause selects
getRequests(reqs, filters) ==
  {r \in 1 .. Len(reqs) :
     /\ filters.teamId # Null => reqs[r].teamId = filters.teamId
     /\ filters.assignedTo # Null => reqs[r].assignedTo = filters.assignedTo
     /\ filters.status # NoStatus => reqs[r].status = filters.status}

\* ---------------------------------------------------------- calendar dates
\* the Date values the scheduling validation compares, in whole days
FirstYear == 2023
LastYear == 2026
Months == 1 .. 12

isLeapYear(year) == year % 4 = 0 /\ (year % 100 # 0 \/ year % 400 = 0)

daysInMonth(year, month) ==
  IF month = 2 THEN (IF isLeapYear(year) THEN 29 ELSE 28)
  ELSE IF month \in {4, 6, 9, 11} THEN 30 ELSE 31

\* the days of the calendar in the given years
CalendarDates(years) ==
  {date \in [year : years, month : Months, day : 1 .. 31] :
     date.day <= daysInMonth(date.year, date.month)}

\* the days on which the validation runs
CurrentDates == CalendarDates(FirstYear .. LastYear)

RECURSIVE daysBeforeYear(_)
daysBeforeYear(year) ==
  IF year = FirstYear THEN 0
  ELSE IF year > FirstYear
  THEN daysBeforeYear(year - 1) + (IF isLeapYear(year - 1) THEN 366 ELSE 365)
  ELSE daysBeforeYear(year + 1) - (IF isLeapYear(year) THEN 366 ELSE 365)

RECURSIVE daysBeforeMonth(_, _)
daysBeforeMonth(year, month) ==
  IF month <= 1 THEN 0
  ELSE daysBeforeMonth(year, month - 1) + daysInMonth(year, month - 1)

\* Date.getTime in days from the first day of FirstYear
getTime(date) ==
  daysBeforeYear(date.year) + daysBeforeMonth(date.year, date.month) + date.day - 1

\* Date.setFullYear: the same month and day of another year; a 29 February
\* that the year lacks becomes its 1 March
setFullYear(date, year) ==
  IF date.day > daysInMonth(year, date.month)
  THEN [year |-> year, month |-> date.month + 1, day |-> 1]
  ELSE [date EXCEPT !.year = year]

\* Date.setDate for the day before the first and the day after the last of
\* the month as well
setDate(date, day) ==
  IF day > daysInMonth(date.year, date.month)
  THEN IF date.month = 12
       THEN [year |-> date.year + 1, month |-> 1, day |-> 1]
       ELSE [date EXCEPT !.month = date.month + 1, !.day = 1]
  ELSE IF day < 1
  THEN IF date.month = 1
       THEN [year |-> date.year - 1, month |-> 12, day |-> 31]
       ELSE [date EXCEPT !.month = date.month - 1,
                         !.day = daysInMonth(date.year, date.month - 1)]
  ELSE [date EXCEPT !.day = day]

\* scheduledDateTime relative to now, in whole days
daysFromNow(now, scheduledDate) == getTime(scheduledDate) - getTime(now)

NoValidation == [scheduled |-> "none", now |-> [year |-> FirstYear, month |-> 1, day |-> 1],
                 scheduledDate |-> NoDate, result |-> "none"]

\* no createRequest call in flight
NoCreate ==
  [pc |-> "idle", equipmentId |-> Null, teamId |-> Null, createdBy |-> Null,
   requestId |-> Null, result |-> "none"]

\* ----------------------------------------------------------------- state
Init ==
  /\ teams = TeamIds
  /\ users = SeedUsers
  /\ equipment = <<>>
  /\ nextEquipmentId = 1
  /\ requests = <<>>
  /\ logs = <<>>
  /\ last = NoCall
  /\ faults = 0
  /\ procs = [p \in Procs |-> IdleProc]
  /\ auth = NoAuth
  /\ sched = NoValidation
  /\ creating = NoCreate

Idle == \A p \in Procs : procs[p].pc = "idle"

\* a request-service call ends: the store it leaves and the record of the call
EndCall(out, call) ==
  /\ Idle
  /\ Len(out.requests) <= MaxRequests
  /\ Len(out.logs) <= MaxLogs
  /\ equipment' = out.equipment
  /\ requests' = out.requests
  /\ logs' = out.logs
  /\ last' = [call EXCEPT !.result = out.result]
  /\ faults' = IF out.result = "STORE_ERROR" THEN faults + 1 ELSE faults
  /\ faults' <= MaxFaults
  /\ UNCHANGED <<teams, users, nextEquipmentId, procs, auth, sched, creating>>

\* an equipment-service call ends
EndEquipmentCall(out, op) ==
  /\ Idle
  /\ equipment' = out.equipment
  /\ last' = [NoCall EXCEPT !.op = op, !.result = out.result]
  /\ UNCHANGED <<teams, users, requests, logs, faults, procs, auth, sched, creating>>

\* ------------------------------------------------------------- actions
CreateEquipment ==
  \E teamId \in TeamIds \cup {MissingTeamId} :
    LET out == createEquipment(teams, equipment, nextEquipmentId, teamId)
    IN /\ nextEquipmentId <= MaxEquipment
       /\ EndEquipmentCall(out, "createEquipment")
       /\ nextEquipmentId' = IF out.result = "ok" THEN nextEquipmentId + 1
                             ELSE nextEquipmentId

UpdateEquipment ==
  \E equipmentId \in EquipmentIdInputs, teamId \in TeamIds \cup {MissingTeamId, Null} :
    /\ EndEquipmentCall(updateEquipment(teams, equipment, equipmentId, teamId),
                        "updateEquipment")
    /\ UNCHANGED nextEquipmentId

ScrapEquipment ==
  \E equipmentId \in EquipmentIdInputs :
    /\ EndEquipmentCall(scrapEquipment(equipment, equipmentId), "scrapEquipment")
    /\ UNCHANGED nextEquipmentId

DeleteEquipment ==
  \E equipmentId \in EquipmentIdInputs :
    /\ EndEquipmentCall(deleteEquipment(equipment, requests, equipmentId),
                        "deleteEquipment")
    /\ UNCHANGED nextEquipmentId

CreateRequestCall(type, equipmentId, scheduledDate, createdBy, fail) ==
  EndCall(createRequest(users, equipment, requests, logs,
                        type, equipmentId, scheduledDate, createdBy, fail),
          [NoCall EXCEPT !.op = "createRequest", !.failAt = fail,
                         !.wasScrapped = ScrappedBefore(equipment, equipmentId)])

AssignRequestCall(requestId, technicianId, assignedBy, fail) ==
  EndCall(assignRequest(users, equipment, requests, logs,
                        requestId, technicianId, assignedBy, fail),
          [NoCall EXCEPT !.op = "assignRequest", !.failAt = fail,
                         !.oldStatus = StatusBefore(requests, requestId)])

UpdateStatusCall(requestId, newStatus, userId, fail) ==
  EndCall(updateStatus(users, equipment, requests, logs,
                       requestId, newStatus, userId, fail),
          [NoCall EXCEPT !.op = "updateStatus", !.failAt = fail,
                         !.oldStatus = StatusBefore(requests, requestId)])

CompleteRequestCall(requestId, durationHours, userId, fail) ==
  EndCall(completeRequest(users, equipment, requests, logs,
                          requestId, durationHours, userId, fail),
          [NoCall EXCEPT !.op = "completeRequest", !.failAt = fail,
                         !.oldStatus = StatusBefore(requests, requestId)])

ScrapRequestCall(requestId, userId, fail) ==
  EndCall(scrapRequest(users, equipment, requests, logs, requestId, userId, fail),
          [NoCall EXCEPT !.op = "scrapRequest", !.failAt = fail,
                         !.oldStatus = StatusBefore(requests, requestId),
                         !.wasScrapped = ScrappedBefore(equipment,
                                           EquipmentOf(requests, requestId))])

CreateRequest ==
  \E type \in Types, equipmentId \in EquipmentIdInputs, scheduledDate \in DateInputs,
     createdBy \in Creators \cup {MissingUserId} :
    CreateRequestCall(type, equipmentId, scheduledDate, createdBy, "none")

AssignRequest ==
  \E requestId \in RequestIdInputs, technicianId \in UserIds \cup {MissingUserId},
     assignedBy \in Assigners :
    AssignRequestCall(requestId, technicianId, assignedBy, "none")

UpdateStatus ==
  \E requestId \in RequestIdInputs, newStatus \in Statuses,
     userId \in UserIds \cup {MissingUserId} :
    UpdateStatusCall(requestId, newStatus, userId, "none")

CompleteRequest ==
  \E requestId \in RequestIdInputs, durationHours \in DurationInputs,
     userId \in UserIds \cup {MissingUserId} :
    CompleteRequestCall(requestId, durationHours, userId, "none")

ScrapRequest ==
  \E requestId \in RequestIdInputs, userId \in UserIds \cup {MissingUserId} :
    ScrapRequestCall(requestId, userId, "none")

Next ==
  \/ CreateEquipment
  \/ UpdateEquipment
  \/ ScrapEquipment
  \/ DeleteEquipment
  \/ CreateRequest
  \/ AssignRequest
  \/ UpdateStatus
  \/ CompleteRequest
  \/ ScrapRequest

Spec == Init /\ [][Next]_vars

\* ---------------------------------------------- calls with a failing write
CreateRequestFail ==
  \E equipmentId \in EquipmentIdInputs, fail \in FailPoints :
    CreateRequestCall("CORRECTIVE", equipmentId, NoDate, AdminId, fail)

AssignRequestFail ==
  \E requestId \in RequestIdInputs, technicianId \in {3, 4}, fail \in FailPoints :
    AssignRequestCall(requestId, technicianId, AdminId, fail)

UpdateStatusFail ==
  \E requestId \in RequestIdInputs, newStatus \in Statuses, fail \in FailPoints :
    UpdateStatusCall(requestId, newStatus, AdminId, fail)

CompleteRequestFail ==
  \E requestId \in RequestIdInputs, fail \in FailPoints :
    CompleteRequestCall(requestId, 2, AdminId, fail)

ScrapRequestFail ==
  \E requestId \in RequestIdInputs, fail \in ScrapFailPoints :
    ScrapRequestCall(requestId, AdminId, fail)

NextFail ==
  \/ CreateEquipment
  \/ ScrapEquipment
  \/ CreateRequestFail
  \/ AssignRequestFail
  \/ UpdateStatusFail
  \/ CompleteRequestFail
  \/ ScrapRequestFail

SpecFail == Init /\ [][NextFail]_vars

\* --------------------------------------- updateStatus, await by await
\* the call is made: prisma.maintenanceRequest.findUnique answers, then the
\* not-found check and validateStatusTransition run on what it returned
UsFindRequest(p) ==
  \E requestId \in RequestIdInputs, newStatus \in Statuses, userId \in ConcurrentUsers :
    /\ procs[p].pc = "idle"
    /\ Len(logs) + Cardinality({q \in Procs : procs[q].pc # "idle"}) < MaxLogs
    /\ procs' = [procs EXCEPT ![p] =
         IF ~RequestExists(requests, requestId)
         THEN [IdleProc EXCEPT !.pc = "done", !.result = "REQUEST_NOT_FOUND"]
         ELSE [pc |-> IF validateStatusTransition(requests[requestId].status,
                                                  newStatus) = "ok"
                      THEN "findUser" ELSE "done",
               requestId |-> requestId, newStatus |-> newStatus, userId |-> userId,
               status |-> requests[requestId].status,
               assignedTo |-> requests[requestId].assignedTo,
               teamId |-> requests[requestId].teamId,
               result |-> validateStatusTransition(requests[requestId].status,
                                                   newStatus)]]
    /\ UNCHANGED <<teams, users, equipment, nextEquipmentId, requests, logs, last, faults, auth, sched, creating>>

\* prisma.user.findUnique answers, then the role checks run against the
\* request row read at the start
UsFindUser(p) ==
  /\ procs[p].pc = "findUser"
  /\ LET result ==
           IF ~UserExists(users, procs[p].userId) THEN "USER_NOT_FOUND"
           ELSE updateStatusPermission(users[procs[p].userId], procs[p].userId,
                                       procs[p], procs[p].newStatus)
     IN procs' = [procs EXCEPT ![p].pc = IF result = "ok" THEN "update" ELSE "done",
                               ![p].result = result]
  /\ UNCHANGED <<teams, users, equipment, nextEquipmentId, requests, logs, last, faults, auth, sched, creating>>

\* prisma.maintenanceRequest.update({ where: { id }, data: { status } })
UsUpdate(p) ==
  /\ procs[p].pc = "update"
  /\ requests' = [requests EXCEPT ![procs[p].requestId].status = procs[p].newStatus]
  /\ procs' = [procs EXCEPT ![p].pc = "log"]
  /\ UNCHANGED <<teams, users, equipment, nextEquipmentId, logs, last, faults, auth, sched, creating>>

\* LogService.createLogEntry(requestId, oldStatus, newStatus, userId), with
\* the oldStatus read at the start
UsLog(p) ==
  /\ procs[p].pc = "log"
  /\ logs' = createLogEntry(logs, procs[p].requestId, procs[p].status,
                            procs[p].newStatus, procs[p].userId)
  /\ procs' = [procs EXCEPT ![p].pc = "done"]
  /\ UNCHANGED <<teams, users, equipment, nextEquipmentId, requests, last, faults, auth, sched, creating>>

\* the call returns or throws to its caller
UsReturn(p) ==
  /\ procs[p].pc = "done"
  /\ last' = [NoCall EXCEPT !.op = "updateStatus", !.result = procs[p].result,
                            !.oldStatus = procs[p].status]
  /\ procs' = [procs EXCEPT ![p] = IdleProc]
  /\ UNCHANGED <<teams, users, equipment, nextEquipmentId, requests, logs, faults, auth, sched, creating>>

FindRequestStep == \E p \in Procs : UsFindRequest(p)
FindUserStep == \E p \in Procs : UsFindUser(p)
UpdateStep == \E p \in Procs : UsUpdate(p)
LogStep == \E p \in Procs : UsLog(p)
ReturnStep == \E p \in Procs : UsReturn(p)

NextConc ==
  \/ CreateEquipment
  \/ CreateRequest
  \/ AssignRequest
  \/ FindRequestStep
  \/ FindUserStep
  \/ UpdateStep
  \/ LogStep
  \/ ReturnStep

SpecConc == Init /\ [][NextConc]_vars

\* ------------------------------- users and teams change under the requests
\* a user- or team-service call ends
EndOrgCall(out, op) ==
  /\ Idle
  /\ teams' = out.teams
  /\ users' = out.users
  /\ last' = [NoCall EXCEPT !.op = op, !.result = out.result]
  /\ UNCHANGED <<equipment, nextEquipmentId, requests, logs, faults, procs, auth, sched, creating>>

UpdateUser ==
  \E userId \in {3, MissingUserId}, role \in {NoRole, "MANAGER"},
     teamId \in {Undefined, Null, 2, MissingTeamId} :
    EndOrgCall(updateUser(teams, users, userId, role, teamId), "updateUser")

AssignUserToTeam ==
  \E userId \in {4, MissingUserId}, teamId \in TeamIds \cup {MissingTeamId} :
    EndOrgCall(assignUserToTeam(teams, users, userId, teamId), "assignUserToTeam")

RemoveUserFromTeam ==
  \E userId \in {4, MissingUserId} :
    EndOrgCall(removeUserFromTeam(teams, users, userId), "removeUserFromTeam")

DeleteUser ==
  \E userId \in {4, MissingUserId} :
    EndOrgCall(deleteUser(teams, users, requests, logs, userId), "deleteUser")

DeleteTeam ==
  \E teamId \in TeamIds \cup {MissingTeamId} :
    EndOrgCall(deleteTeam(teams, users, equipment, requests, teamId), "deleteTeam")

\* GET /api/requests by a stored user
GetRequestsCall(userId, query) ==
  /\ Idle
  /\ UserExists(users, userId)
  /\ last' = [NoCall EXCEPT !.op = "getRequests", !.result = "ok"]
  /\ UNCHANGED <<teams, users, equipment, nextEquipmentId, requests, logs, faults,
                 procs, auth, sched, creating>>

GetRequests ==
  \E userId \in {AdminId, 2, 3}, query \in Queries : GetRequestsCall(userId, query)

\* the request calls of an ADMIN
UpdateStatusByAdmin ==
  \E requestId \in RequestIdInputs, newStatus \in Statuses :
    UpdateStatusCall(requestId, newStatus, AdminId, "none")

CompleteRequestByAdmin ==
  \E requestId \in RequestIdInputs : CompleteRequestCall(requestId, 2, AdminId, "none")

ScrapRequestByAdmin ==
  \E requestId \in RequestIdInputs : ScrapRequestCall(requestId, AdminId, "none")

NextOrg ==
  \/ CreateEquipment
  \/ UpdateEquipment
  \/ CreateRequest
  \/ AssignRequest
  \/ UpdateStatusByAdmin
  \/ CompleteRequestByAdmin
  \/ ScrapRequestByAdmin
  \/ UpdateUser
  \/ AssignUserToTeam
  \/ RemoveUserFromTeam
  \/ DeleteUser
  \/ DeleteTeam
  \/ GetRequests

SpecOrg == Init /\ [][NextOrg]_vars

\* --------------------------------------------- scheduling validation steps
\* validatePreventiveMaintenanceScheduling of a PREVENTIVE request returns or
\* throws; scheduledDate is the day offset from now the code compares
Validated(scheduled, now, scheduledDate) ==
  /\ sched' = [scheduled |-> scheduled, now |-> now, scheduledDate |-> scheduledDate,
               result |-> validatePreventiveMaintenanceScheduling("PREVENTIVE",
                                                                  scheduledDate)]
  /\ UNCHANGED <<teams, users, equipment, nextEquipmentId, requests, logs, last,
                 faults, procs, auth, creating>>

\* new Date(): the day of the validation before, or the day after it
Now ==
  {now \in {sched.now, setDate(sched.now, sched.now.day + 1)} : now \in CurrentDates}

\* scheduledDate = now with setFullYear(getFullYear() + 2)
ScheduleTwoYears ==
  \E now \in Now :
    Validated("twoYears", now, daysFromNow(now, setFullYear(now, now.year + 2)))

\* the same with setDate(getDate() + 1)
ScheduleTwoYearsAndOneDay ==
  \E now \in Now :
    LET twoYears == setFullYear(now, now.year + 2)
    IN Validated("twoYearsAndOneDay", now,
                 daysFromNow(now, setDate(twoYears, twoYears.day + 1)))

ScheduleMissing ==
  \E now \in Now : Validated("missing", now, NoDate)

ScheduleToday ==
  \E now \in Now : Validated("today", now, daysFromNow(now, now))

ScheduleYesterday ==
  \E now \in Now :
    Validated("yesterday", now, daysFromNow(now, setDate(now, now.day - 1)))

NextSched ==
  \/ ScheduleTwoYears
  \/ ScheduleTwoYearsAndOneDay
  \/ ScheduleMissing
  \/ ScheduleToday
  \/ ScheduleYesterday

SpecSched == Init /\ [][NextSched]_vars

\* ------------------------------------- createRequest against the scraps
\* createRequest as the steps its awaits cut it into; the scheduling rule
\* runs before the first await, and a call it rejects loads nothing.
\* prisma.equipment.findUnique answers and the two checks on the row run
CrFindEquipment ==
  \E type \in Types, equipmentId \in EquipmentIdInputs, scheduledDate \in DateInputs,
     createdBy \in Creators \cup {MissingUserId} :
    /\ creating.pc = "idle"
    /\ Len(requests) < MaxRequests
    /\ Len(logs) < MaxLogs
    /\ creating' =
         LET result ==
               IF validatePreventiveMaintenanceScheduling(type, scheduledDate) # "ok"
               THEN "VALIDATION_ERROR"
               ELSE validateEquipment(equipment, equipmentId)
         IN [pc |-> IF result = "ok" THEN "findCreator" ELSE "done",
             equipmentId |-> equipmentId,
             teamId |-> IF result = "ok" THEN equipment[equipmentId].teamId ELSE Null,
             createdBy |-> createdBy, requestId |-> Null, result |-> result]
    /\ UNCHANGED <<teams, users, equipment, nextEquipmentId, requests, logs, last,
                   faults, procs, auth, sched>>

\* prisma.user.findUnique answers
CrFindCreator ==
  /\ creating.pc = "findCreator"
  /\ creating' = IF UserExists(users, creating.createdBy)
                 THEN [creating EXCEPT !.pc = "create"]
                 ELSE [creating EXCEPT !.pc = "done", !.result = "USER_NOT_FOUND"]
  /\ UNCHANGED <<teams, users, equipment, nextEquipmentId, requests, logs, last,
                 faults, procs, auth, sched>>

\* prisma.maintenanceRequest.create commits, with the team of the equipment
\* row read at the start
CrCreate ==
  /\ creating.pc = "create"
  /\ Len(requests) < MaxRequests
  /\ requests' = Append(requests, NewRequest(creating.equipmentId, creating.teamId))
  /\ creating' = [creating EXCEPT !.pc = "log", !.requestId = Len(requests) + 1]
  /\ UNCHANGED <<teams, users, equipment, nextEquipmentId, logs, last, faults, procs,
                 auth, sched>>

\* LogService.createLogEntry commits
CrLog ==
  /\ creating.pc = "log"
  /\ Len(logs) < MaxLogs
  /\ logs' = createLogEntry(logs, creating.requestId, NoStatus, "NEW", creating.createdBy)
  /\ creating' = [creating EXCEPT !.pc = "done"]
  /\ UNCHANGED <<teams, users, equipment, nextEquipmentId, requests, last, faults,
                 procs, auth, sched>>

\* the call returns or throws
CrReturn ==
  /\ creating.pc = "done"
  /\ last' = [NoCall EXCEPT !.op = "createRequest", !.result = creating.result,
                            !.wasScrapped = creating.result = "EQUIPMENT_SCRAPPED"]
  /\ creating' = NoCreate
  /\ UNCHANGED <<teams, users, equipment, nextEquipmentId, requests, logs, faults,
                 procs, auth, sched>>

\* one createRequest in steps, with whole scrapEquipment, scrapRequest and
\* createRequest calls of other callers between its steps
NextRace ==
  \/ CreateEquipment
  \/ ScrapEquipment
  \/ CreateRequest
  \/ ScrapRequestByAdmin
  \/ CrFindEquipment
  \/ CrFindCreator
  \/ CrCreate
  \/ CrLog
  \/ CrReturn

SpecRace == Init /\ [][NextRace]_vars

\* ------------------------------------------- authHelpers, applied
\* a predicate has been applied: its arguments and its answer
Decided(predicate, user, request, teamId, roles, decision) ==
  /\ auth' = [predicate |-> predicate, user |-> user, request |-> request,
              teamId |-> teamId, roles |-> roles, decision |-> decision]
  /\ UNCHANGED <<teams, users, equipment, nextEquipmentId, requests, logs, last,
                 faults, procs, sched, creating>>

HasRole ==
  \E user \in AuthUsers, roles \in RoleLists :
    Decided("hasRole", user, NullRequest, Null, roles, hasRole(user, roles))

BelongsToTeam ==
  \E user \in AuthUsers, teamId \in TeamIdInputs :
    Decided("belongsToTeam", user, NullRequest, teamId, {}, belongsToTeam(user, teamId))

CanAccessTeam ==
  \E user \in AuthUsers, teamId \in TeamIdInputs :
    Decided("canAccessTeam", user, NullRequest, teamId, {}, canAccessTeam(user, teamId))

CanCreateRequests ==
  \E user \in AuthUsers :
    Decided("canCreateRequests", user, NullRequest, Null, {}, canCreateRequests(user))

CanAssignRequests ==
  \E user \in AuthUsers :
    Decided("canAssignRequests", user, NullRequest, Null, {}, canAssignRequests(user))

CanUpdateRequestStatus ==
  \E user \in AuthUsers :
    Decided("canUpdateRequestStatus", user, NullRequest, Null, {},
            canUpdateRequestStatus(user))

CanManageUsers ==
  \E user \in AuthUsers :
    Decided("canManageUsers", user, NullRequest, Null, {}, canManageUsers(user))

CanManageEquipment ==
  \E user \in AuthUsers :
    Decided("canManageEquipment", user, NullRequest, Null, {}, canManageEquipment(user))

CanViewDashboard ==
  \E user \in AuthUsers :
    Decided("canViewDashboard", user, NullRequest, Null, {}, canViewDashboard(user))

CanScrapEquipment ==
  \E user \in AuthUsers :
    Decided("canScrapEquipment", user, NullRequest, Null, {}, canScrapEquipment(user))

CanViewRequest ==
  \E user \in AuthUsers, request \in AuthRequests :
    Decided("canViewRequest", user, request, Null, {}, canViewRequest(user, request))

CanModifyRequest ==
  \E user \in AuthUsers, request \in AuthRequests :
    Decided("canModifyRequest", user, request, Null, {}, canModifyRequest(user, request))

\* GET /api/requests/:id for an authenticated user of one of the three roles
\* and a request the service found
GetRequestById ==
  \E user \in AuthUsers, request \in AuthRequests :
    /\ user.defined /\ user.role \in Roles
    /\ request.defined
    /\ Decided("getRequestById", user, request, Null, {},
               getRequestByIdAccess(user, request) = "ok")

NextAuth ==
  \/ HasRole
  \/ BelongsToTeam
  \/ CanAccessTeam
  \/ CanCreateRequests
  \/ CanAssignRequests
  \/ CanUpdateRequestStatus
  \/ CanManageUsers
  \/ CanManageEquipment
  \/ CanViewDashboard
  \/ CanScrapEquipment
  \/ CanViewRequest
  \/ CanModifyRequest
  \/ GetRequestById

SpecAuth == Init /\ [][NextAuth]_vars

\* ================================================================ claims
TransitionTable ==
  {<<"NEW", "IN_PROGRESS">>, <<"NEW", "SCRAP">>,
   <<"IN_PROGRESS", "REPAIRED">>, <<"IN_PROGRESS", "SCRAP">>}

AllUserInputs == UserIds \cup {MissingUserId}
AllDurations == DurationInputs \cup {1}
AllDates == DateInputs \cup {0 - 1, 0, MaxFutureDays, MaxFutureDays + 1}
Admins == {u \in DOMAIN users : users[u].role = "ADMIN"}
ExistingRequests == 1 .. Len(requests)

\* C1: in every reachable state, for every existing request and every target
\* status, updateStatus called by an ADMIN succeeds and sets the status iff
\* (from, to) is in the transition table; every other pair ends with
\* INVALID_STATUS_TRANSITION and the store as it was.
C1_TransitionSoundness ==
  \A requestId \in ExistingRequests, newStatus \in Statuses, userId \in Admins :
    LET from == requests[requestId].status
        out == updateStatus(users, equipment, requests, logs,
                            requestId, newStatus, userId, "none")
    IN IF <<from, newStatus>> \in TransitionTable
       THEN out.result = "ok" /\ out.requests[requestId].status = newStatus
       ELSE /\ out.result = "INVALID_STATUS_TRANSITION"
            /\ out.requests = requests
            /\ out.logs = logs

\* an updateStatus call on a REPAIRED request has just been refused
C1_Witness ==
  /\ Len(requests) = 1
  /\ requests[1].status = "REPAIRED"
  /\ last.op = "updateStatus"
  /\ last.oldStatus = "REPAIRED"
  /\ last.result = "INVALID_STATUS_TRANSITION"

\* C2: every change of a request's status made by a step is a pair of the
\* transition table, so a REPAIRED or SCRAP request keeps its status.
C2_OnlyTableTransitions ==
  [][\A requestId \in ExistingRequests :
       requests'[requestId].status # requests[requestId].status
         => <<requests[requestId].status, requests'[requestId].status>>
              \in TransitionTable]_vars

\* the log row a successful call on requestId by userId must leave: the
\* request's status before the call, its status after
ExpectedRow(out, requestId, userId) ==
  LogRow(requestId, StatusBefore(requests, requestId),
         out.requests[requestId].status, userId)

OneRowAdded(out, requestId, userId) ==
  out.result = "ok" => out.logs = Append(logs, ExpectedRow(out, requestId, userId))

\* C3: in every reachable state, each of the five operations, for every
\* input on which it succeeds, leaves the logs it found followed by exactly one
\* row (request, status before or null for a creation, status after, actor).
C3_AuditCompleteness ==
  /\ \A type \in Types, equipmentId \in EquipmentIdInputs, scheduledDate \in AllDates,
        createdBy \in AllUserInputs :
       LET out == createRequest(users, equipment, requests, logs,
                                type, equipmentId, scheduledDate, createdBy, "none")
       IN out.result = "ok" =>
            /\ Len(out.requests) = Len(requests) + 1
            /\ out.requests[Len(out.requests)].status = "NEW"
            /\ OneRowAdded(out, Len(out.requests), createdBy)
  /\ \A requestId \in RequestIdInputs, technicianId \in AllUserInputs,
        assignedBy \in UserIds :
       OneRowAdded(assignRequest(users, equipment, requests, logs,
                                 requestId, technicianId, assignedBy, "none"),
                   requestId, assignedBy)
  /\ \A requestId \in RequestIdInputs, newStatus \in Statuses, userId \in AllUserInputs :
       OneRowAdded(updateStatus(users, equipment, requests, logs,
                                requestId, newStatus, userId, "none"),
                   requestId, userId)
  /\ \A requestId \in RequestIdInputs, durationHours \in AllDurations,
        userId \in AllUserInputs :
       OneRowAdded(completeRequest(users, equipment, requests, logs,
                                   requestId, durationHours, userId, "none"),
                   requestId, userId)
  /\ \A requestId \in RequestIdInputs, userId \in AllUserInputs :
       OneRowAdded(scrapRequest(users, equipment, requests, logs,
                                requestId, userId, "none"),
                   requestId, userId)

\* a technician has just completed the request assigned to them: the third
\* row of the log is theirs
C3_Witness ==
  /\ last.op = "completeRequest"
  /\ last.result = "ok"
  /\ Len(logs) = 3
  /\ logs[1] = LogRow(1, NoStatus, "NEW", 2)
  /\ logs[2] = LogRow(1, "NEW", "IN_PROGRESS", 1)
  /\ logs[3] = LogRow(1, "IN_PROGRESS", "REPAIRED", 3)

\* C4: a call whose log append throws leaves the requests as it found them.
C4_LogFailureRollsBack ==
  [][(last'.result = "STORE_ERROR" /\ last'.failAt = "log"
        /\ last'.op \in {"createRequest", "assignRequest", "updateStatus",
                         "completeRequest"})
       => requests' = requests]_vars

\* C6: in every reachable state, a scrapRequest that succeeds on a request
\* whose equipment is not scrapped leaves the request SCRAP, that equipment
\* scrapped, and the logs followed by one row whose newStatus is SCRAP.
C6_ScrapCascade ==
  \A requestId \in ExistingRequests, userId \in AllUserInputs :
    LET out == scrapRequest(users, equipment, requests, logs, requestId, userId, "none")
        equipmentId == requests[requestId].equipmentId
    IN (out.result = "ok" /\ ~equipment[equipmentId].isScrapped) =>
         /\ out.requests[requestId].status = "SCRAP"
         /\ out.equipment[equipmentId].isScrapped
         /\ Len(out.logs) = Len(logs) + 1
         /\ SubSeq(out.logs, 1, Len(logs)) = logs
         /\ out.logs[Len(out.logs)].requestId = requestId
         /\ out.logs[Len(out.logs)].newStatus = "SCRAP"

\* scrapRequest has just succeeded on a request whose equipment was in service
C6_Witness ==
  /\ last.op = "scrapRequest"
  /\ last.result = "ok"
  /\ ~last.wasScrapped
  /\ Len(requests) = 1
  /\ requests[1].status = "SCRAP"
  /\ equipment[requests[1].equipmentId].isScrapped
  /\ logs[Len(logs)].newStatus = "SCRAP"

\* C7: a scrapRequest that ends with a store error leaves requests, equipment
\* and logs as it found them.
C7_ScrapAllOrNothing ==
  [][(last'.op = "scrapRequest" /\ last'.result = "STORE_ERROR")
       => (requests' = requests /\ equipment' = equipment /\ logs' = logs)]_vars

\* C8: scrapRequest by an ADMIN on a request that is SCRAP with its equipment
\* scrapped succeeds and leaves requests, equipment and logs as they were.
C8_SecondScrapIsNoOp ==
  [][\A requestId \in ExistingRequests :
       (/\ requests[requestId].status = "SCRAP"
        /\ equipment[requests[requestId].equipmentId].isScrapped
        /\ ScrapRequestCall(requestId, AdminId, "none"))
       => (/\ last'.result = "ok"
           /\ requests' = requests
           /\ equipment' = equipment
           /\ logs' = logs)]_vars

\* C9 as stated: a createRequest call naming a scrapped equipment ends with
\* EQUIPMENT_SCRAPPED, a createRequest call naming an equipment that does not
\* exist ends with EQUIPMENT_NOT_FOUND, and neither adds a request or a log row.
C9_AsStated ==
  [][\A type \in Types, equipmentId \in EquipmentIdInputs, scheduledDate \in AllDates,
        createdBy \in AllUserInputs :
       CreateRequestCall(type, equipmentId, scheduledDate, createdBy, "none") =>
         /\ (EquipmentExists(equipment, equipmentId) /\ equipment[equipmentId].isScrapped)
              => (last'.result = "EQUIPMENT_SCRAPPED"
                    /\ requests' = requests /\ logs' = logs)
         /\ ~EquipmentExists(equipment, equipmentId)
              => last'.result = "EQUIPMENT_NOT_FOUND"]_vars

\* C9 amended: in every reachable state, createRequest naming a scrapped
\* equipment creates neither a request nor a log row; it ends with
\* VALIDATION_ERROR when its type and scheduledDate break the scheduling rule
\* (checked before the equipment is loaded) and with EQUIPMENT_SCRAPPED
\* otherwise; createRequest naming an equipment that does not exist (never
\* created, or deleted since) ends with VALIDATION_ERROR or, when the
\* scheduling is valid, with EQUIPMENT_NOT_FOUND.
C9_ScrappedEquipmentExcluded ==
  \A type \in Types, equipmentId \in EquipmentIdInputs, scheduledDate \in AllDates,
     createdBy \in AllUserInputs :
    LET out == createRequest(users, equipment, requests, logs,
                             type, equipmentId, scheduledDate, createdBy, "none")
        valid == validatePreventiveMaintenanceScheduling(type, scheduledDate) = "ok"
    IN /\ (EquipmentExists(equipment, equipmentId) /\ equipment[equipmentId].isScrapped)
            => /\ out.result = IF valid THEN "EQUIPMENT_SCRAPPED" ELSE "VALIDATION_ERROR"
               /\ out.requests = requests
               /\ out.logs = logs
       /\ ~EquipmentExists(equipment, equipmentId)
            => /\ out.result = IF valid THEN "EQUIPMENT_NOT_FOUND" ELSE "VALIDATION_ERROR"
               /\ out.requests = requests
               /\ out.logs = logs

\* a createRequest on an equipment scrapped by the scrapRequest cascade has
\* just been refused
C9_Witness ==
  /\ last.op = "createRequest"
  /\ last.result = "EQUIPMENT_SCRAPPED"
  /\ last.wasScrapped
  /\ Len(requests) = 1
  /\ requests[1].status = "SCRAP"
  /\ equipment[requests[1].equipmentId].isScrapped
  /\ logs = <<LogRow(1, NoStatus, "NEW", 2), LogRow(1, "NEW", "SCRAP", 1)>>

\* C10, the steps: an equipment row that is scrapped is still scrapped after
\* any step that keeps it, and a row a step creates is not scrapped.
OneWayStep ==
  /\ \A e \in DOMAIN equipment \cap DOMAIN equipment' :
       equipment[e].isScrapped => equipment'[e].isScrapped
  /\ \A e \in DOMAIN equipment' \ DOMAIN equipment :
       ~equipment'[e].isScrapped /\ e \notin 1 .. (nextEquipmentId - 1)

\* C10, the refusal: updateEquipment on a scrapped equipment ends with
\* EQUIPMENT_SCRAPPED and leaves every equipment row as it was.
UpdateOfScrappedRefused ==
  \A equipmentId \in DOMAIN equipment, teamId \in TeamIds \cup {MissingTeamId, Null} :
    equipment[equipmentId].isScrapped =>
      LET out == updateEquipment(teams, equipment, equipmentId, teamId)
      IN out.result = "EQUIPMENT_SCRAPPED" /\ out.equipment = equipment

\* C10: isScrapped starts false and never goes from true back to false, and
\* updateEquipment on scrapped equipment is refused without any change.
C10_ScrappedIsOneWay == [][OneWayStep]_vars /\ []UpdateOfScrappedRefused

\* an updateEquipment on a scrapped equipment has just been refused
C10_Witness ==
  /\ last.op = "updateEquipment"
  /\ last.result = "EQUIPMENT_SCRAPPED"
  /\ \E e \in DOMAIN equipment : equipment[e].isScrapped

\* C5: two updateStatus calls on the same request that read the same prior
\* status do not both end in success.
C5_OneWinner ==
  \A p, q \in Procs :
    (/\ p # q
     /\ procs[p].pc = "done" /\ procs[q].pc = "done"
     /\ procs[p].requestId # Null
     /\ procs[p].requestId = procs[q].requestId
     /\ procs[p].status = procs[q].status)
    => ~(procs[p].result = "ok" /\ procs[q].result = "ok")

\* C11: in every reachable state, the equipment of every request whose status
\* is SCRAP is scrapped.
C11_ScrapImpliesEquipmentScrapped ==
  \A requestId \in ExistingRequests :
    requests[requestId].status = "SCRAP" =>
      /\ EquipmentExists(equipment, requests[requestId].equipmentId)
      /\ equipment[requests[requestId].equipmentId].isScrapped

\* C12 as stated: an assignRequest call naming a user whose teamId differs
\* from the request's ends with TEAM_ASSIGNMENT_MISMATCH, whatever the role of
\* that user and whoever calls, and leaves requests and logs as they were.
C12_AsStated ==
  [][\A requestId \in ExistingRequests, technicianId \in DOMAIN users,
        assignedBy \in AllUserInputs :
       (/\ users[technicianId].teamId # requests[requestId].teamId
        /\ AssignRequestCall(requestId, technicianId, assignedBy, "none"))
       => (/\ last'.result = "TEAM_ASSIGNMENT_MISMATCH"
           /\ requests' = requests
           /\ logs' = logs)]_vars

\* C12 amended: in every reachable state, assignRequest naming an existing
\* user whose teamId differs from the request's fails, whoever calls, and
\* leaves requests (assignedTo, status) and logs as they were; it ends with
\* TEAM_ASSIGNMENT_MISMATCH when that user is a TECHNICIAN and with
\* VALIDATION_ERROR (the role check comes first) when it is not.
C12_TeamScopedAssignment ==
  \A requestId \in ExistingRequests, technicianId \in DOMAIN users,
     assignedBy \in AllUserInputs :
    LET out == assignRequest(users, equipment, requests, logs,
                             requestId, technicianId, assignedBy, "none")
    IN users[technicianId].teamId # requests[requestId].teamId =>
         /\ out.result = IF users[technicianId].role = "TECHNICIAN"
                         THEN "TEAM_ASSIGNMENT_MISMATCH" ELSE "VALIDATION_ERROR"
         /\ out.requests = requests
         /\ out.logs = logs

\* the assignment of a technician of another team has just been refused
C12_Witness ==
  /\ last.op = "assignRequest"
  /\ last.result = "TEAM_ASSIGNMENT_MISMATCH"
  /\ Len(requests) = 1
  /\ requests[1].assignedTo = Null
  /\ requests[1].status = "NEW"
  /\ Len(logs) = 1

\* C13: an assignRequest call naming a technician of the request's team sets
\* assignedTo and IN_PROGRESS on a NEW or IN_PROGRESS request, and on a
\* REPAIRED or SCRAP request ends with INVALID_STATUS_TRANSITION and leaves
\* the requests as they were.
C13_AssignValidatesTransition ==
  [][\A requestId \in ExistingRequests, technicianId \in DOMAIN users,
        assignedBy \in AllUserInputs :
       (/\ validateTechnician(users[technicianId], requests[requestId]) = "ok"
        /\ AssignRequestCall(requestId, technicianId, assignedBy, "none"))
       => IF requests[requestId].status \in {"NEW", "IN_PROGRESS"}
          THEN /\ last'.result = "ok"
               /\ requests'[requestId].assignedTo = technicianId
               /\ requests'[requestId].status = "IN_PROGRESS"
          ELSE /\ last'.result = "INVALID_STATUS_TRANSITION"
               /\ requests' = requests]_vars

InvalidDuration(durationHours) == durationHours = NoDuration \/ durationHours <= 0

\* C14 as stated: a completeRequest call on a request that is not IN_PROGRESS
\* ends with INVALID_STATUS_TRANSITION, one on an IN_PROGRESS request with a
\* missing, zero or negative durationHours ends with VALIDATION_ERROR, and
\* both leave the requests as they were.
C14_AsStated ==
  [][\A requestId \in ExistingRequests, durationHours \in AllDurations,
        userId \in AllUserInputs :
       CompleteRequestCall(requestId, durationHours, userId, "none") =>
         /\ requests[requestId].status # "IN_PROGRESS"
              => (last'.result = "INVALID_STATUS_TRANSITION" /\ requests' = requests)
         /\ (requests[requestId].status = "IN_PROGRESS" /\ InvalidDuration(durationHours))
              => (last'.result = "VALIDATION_ERROR" /\ requests' = requests)]_vars

\* C14 amended: in every reachable state, completeRequest on a request that
\* is not IN_PROGRESS ends with INVALID_STATUS_TRANSITION; on an IN_PROGRESS
\* request with a missing, zero or negative durationHours it ends with
\* VALIDATION_ERROR when the caller exists and passes the role check, and
\* with USER_NOT_FOUND, INSUFFICIENT_PERMISSIONS or TEAM_ACCESS_DENIED (checked
\* before the duration) when it does not; every failure leaves requests and
\* logs as they were; a success happens only on an IN_PROGRESS request with
\* durationHours > 0 and leaves it REPAIRED with the given durationHours.
C14_CompletePreconditions ==
  \A requestId \in ExistingRequests, durationHours \in AllDurations,
     userId \in AllUserInputs :
    LET out == completeRequest(users, equipment, requests, logs,
                               requestId, durationHours, userId, "none")
        request == requests[requestId]
        authorized == /\ UserExists(users, userId)
                      /\ completePermission(users[userId], userId, request) = "ok"
    IN /\ request.status # "IN_PROGRESS" => out.result = "INVALID_STATUS_TRANSITION"
       /\ (request.status = "IN_PROGRESS" /\ InvalidDuration(durationHours)) =>
            IF authorized
            THEN out.result = "VALIDATION_ERROR"
            ELSE out.result \in {"USER_NOT_FOUND", "INSUFFICIENT_PERMISSIONS",
                                 "TEAM_ACCESS_DENIED"}
       /\ out.result # "ok" => (out.requests = requests /\ out.logs = logs)
       /\ out.result = "ok" =>
            /\ request.status = "IN_PROGRESS"
            /\ durationHours > 0
            /\ out.requests[requestId].status = "REPAIRED"
            /\ out.requests[requestId].durationHours = durationHours

\* the assigned technician has just completed the request with a duration
C14_Witness ==
  /\ last.op = "completeRequest"
  /\ last.result = "ok"
  /\ last.oldStatus = "IN_PROGRESS"
  /\ Len(requests) = 1
  /\ requests[1].status = "REPAIRED"
  /\ requests[1].durationHours = 2

\* C15: in every reachable state, a REPAIRED request has a durationHours and
\* a NEW or IN_PROGRESS request has none.
C15_DurationIffRepaired ==
  \A requestId \in ExistingRequests :
    /\ requests[requestId].status = "REPAIRED"
         => requests[requestId].durationHours # NoDuration
    /\ requests[requestId].status \in {"NEW", "IN_PROGRESS"}
         => requests[requestId].durationHours = NoDuration

\* the rows a user can have in prisma.user
ActorRows == [role : Roles, teamId : TeamIds \cup {Null}]

\* C16: in every reachable state, for every request, every target status the
\* table allows from its status, and every actor (any id, role and team, or
\* an id with no user), updateStatus succeeds and sets the status iff the
\* actor is an ADMIN, a MANAGER of the request's team, or the TECHNICIAN
\* assigned to the request with target REPAIRED or SCRAP; otherwise it fails
\* and leaves requests and logs as they were.
C16_UpdateStatusAuthorization ==
  \A requestId \in ExistingRequests, newStatus \in Statuses :
    <<requests[requestId].status, newStatus>> \in TransitionTable =>
      /\ \A userId \in UserIds, actor \in ActorRows :
           LET request == requests[requestId]
               out == updateStatus((userId :> actor) @@ users, equipment, requests,
                                   logs, requestId, newStatus, userId, "none")
               permitted ==
                 \/ actor.role = "ADMIN"
                 \/ actor.role = "MANAGER" /\ actor.teamId = request.teamId
                 \/ /\ actor.role = "TECHNICIAN"
                    /\ request.assignedTo = userId
                    /\ newStatus \in {"REPAIRED", "SCRAP"}
           IN IF permitted
              THEN out.result = "ok" /\ out.requests[requestId].status = newStatus
              ELSE /\ out.result \in {"INSUFFICIENT_PERMISSIONS", "TEAM_ACCESS_DENIED",
                                      "INVALID_STATUS_TRANSITION"}
                   /\ out.requests = requests
                   /\ out.logs = logs
      /\ LET out == updateStatus(users, equipment, requests, logs,
                                 requestId, newStatus, MissingUserId, "none")
         IN out.result = "USER_NOT_FOUND" /\ out.requests = requests /\ out.logs = logs

\* a technician who is not the assignee has just been refused a transition
\* the table allows
C16_Witness ==
  /\ last.op = "updateStatus"
  /\ last.result = "INSUFFICIENT_PERMISSIONS"
  /\ last.oldStatus = "IN_PROGRESS"
  /\ Len(requests) = 1
  /\ requests[1].status = "IN_PROGRESS"
  /\ requests[1].assignedTo = 3

\* C17: in every reachable state, for every request and every actor (any id,
\* role and team), the role checks of completeRequest give the answer the
\* role checks of updateStatus give for target REPAIRED, and the role checks
\* of scrapRequest the answer they give for target SCRAP; so on a request the
\* table lets move there, completeRequest with a valid duration and
\* updateStatus(REPAIRED), and scrapRequest and updateStatus(SCRAP), end alike.
C17_AuthorizationEquivalence ==
  \A requestId \in ExistingRequests, userId \in UserIds, actor \in ActorRows :
    LET request == requests[requestId]
        us == (userId :> actor) @@ users
    IN /\ completePermission(actor, userId, request)
            = updateStatusPermission(actor, userId, request, "REPAIRED")
       /\ scrapPermission(actor, userId, request)
            = updateStatusPermission(actor, userId, request, "SCRAP")
       /\ request.status = "IN_PROGRESS" =>
            completeRequest(us, equipment, requests, logs, requestId, 2, userId,
                            "none").result
              = updateStatus(us, equipment, requests, logs, requestId, "REPAIRED",
                             userId, "none").result
       /\ request.status \in {"NEW", "IN_PROGRESS"} =>
            scrapRequest(us, equipment, requests, logs, requestId, userId,
                         "none").result
              = updateStatus(us, equipment, requests, logs, requestId, "SCRAP",
                             userId, "none").result

\* a technician who is not the assignee has just been refused completeRequest
\* on an IN_PROGRESS request
C17_Witness ==
  /\ last.op = "completeRequest"
  /\ last.result = "INSUFFICIENT_PERMISSIONS"
  /\ last.oldStatus = "IN_PROGRESS"
  /\ Len(requests) = 1
  /\ requests[1].status = "IN_PROGRESS"
  /\ requests[1].assignedTo = 3

\* the answer the view rule gives for an actor and a request
ViewRule(user, request) ==
  \/ user.role = "ADMIN"
  \/ user.role = "MANAGER" /\ user.teamId = request.teamId
  \/ /\ user.role = "TECHNICIAN"
     /\ (request.assignedTo = user.id \/ user.teamId = request.teamId)

\* the answer the modify rule gives for an actor and a request
ModifyRule(user, request) ==
  \/ user.role = "ADMIN"
  \/ user.role = "MANAGER" /\ user.teamId = request.teamId
  \/ user.role = "TECHNICIAN" /\ request.assignedTo = user.id

C19_CanModifyRequest ==
  (auth.predicate = "canModifyRequest" /\ auth.user.defined /\ auth.request.defined)
    => /\ auth.decision = ModifyRule(auth.user, auth.request)
       /\ (/\ auth.user.role = "TECHNICIAN"
           /\ auth.user.teamId = auth.request.teamId
           /\ auth.request.assignedTo # auth.user.id)
            => (~auth.decision /\ canViewRequest(auth.user, auth.request))

\* a technician of the request's team who is not the assignee has been
\* refused the modification
C19_Witness ==
  /\ auth.predicate = "canModifyRequest"
  /\ auth.user = [defined |-> TRUE, id |-> 4, role |-> "TECHNICIAN", teamId |-> 1]
  /\ auth.request = [defined |-> TRUE, teamId |-> 1, assignedTo |-> 3]
  /\ ~auth.decision

\* C20: whenever one of the eight predicates answers true, the actor is an
\* object with a role, and the request (canViewRequest, canModifyRequest) or
\* the teamId (belongsToTeam, canAccessTeam) it was given is present.
C20_FailClosed ==
  (/\ auth.predicate \in {"hasRole", "belongsToTeam", "canAccessTeam",
                          "canCreateRequests", "canAssignRequests",
                          "canUpdateRequestStatus", "canViewRequest",
                          "canModifyRequest"}
   /\ auth.decision)
  => /\ auth.user.defined
     /\ auth.user.role # NoRole
     /\ auth.predicate \in {"canViewRequest", "canModifyRequest"} => auth.request.defined
     /\ auth.predicate \in {"belongsToTeam", "canAccessTeam"} => auth.teamId # Null

\* the answer of an authorization predicate of authHelpers, by its name
Answer(predicate, user, request, teamId) ==
  CASE predicate = "belongsToTeam" -> belongsToTeam(user, teamId)
    [] predicate = "canAccessTeam" -> canAccessTeam(user, teamId)
    [] predicate = "canManageUsers" -> canManageUsers(user)
    [] predicate = "canManageEquipment" -> canManageEquipment(user)
    [] predicate = "canCreateRequests" -> canCreateRequests(user)
    [] predicate = "canAssignRequests" -> canAssignRequests(user)
    [] predicate = "canUpdateRequestStatus" -> canUpdateRequestStatus(user)
    [] predicate = "canViewRequest" -> canViewRequest(user, request)
    [] predicate = "canModifyRequest" -> canModifyRequest(user, request)
    [] predicate = "canViewDashboard" -> canViewDashboard(user)
    [] predicate = "canScrapEquipment" -> canScrapEquipment(user)
    [] OTHER -> FALSE

AuthorizationPredicates ==
  {"belongsToTeam", "canAccessTeam", "canManageUsers", "canManageEquipment",
   "canCreateRequests", "canAssignRequests", "canUpdateRequestStatus",
   "canViewRequest", "canModifyRequest", "canViewDashboard", "canScrapEquipment"}

\* C21: whenever an authorization predicate has allowed a TECHNICIAN, it
\* allows a MANAGER with the same id and teamId on the same resource, and
\* whenever it has allowed a MANAGER it allows an ADMIN with the same id and
\* teamId.
C21_RoleOrdering ==
  (auth.predicate \in AuthorizationPredicates /\ auth.user.defined /\ auth.decision)
  => /\ auth.user.role = "TECHNICIAN"
          => Answer(auth.predicate, [auth.user EXCEPT !.role = "MANAGER"],
                    auth.request, auth.teamId)
     /\ auth.user.role = "MANAGER"
          => Answer(auth.predicate, [auth.user EXCEPT !.role = "ADMIN"],
                    auth.request, auth.teamId)

\* C22, the steps: a step leaves the teamId of every stored request as it
\* was, and a request it creates has the teamId its equipment has then.
TeamIdFixedStep ==
  /\ Len(requests') >= Len(requests)
  /\ \A requestId \in 1 .. Len(requests) :
       requests'[requestId].teamId = requests[requestId].teamId
  /\ \A requestId \in (Len(requests) + 1) .. Len(requests') :
       /\ EquipmentExists(equipment, requests'[requestId].equipmentId)
       /\ requests'[requestId].teamId
            = equipment[requests'[requestId].equipmentId].teamId

\* C22: createRequest sets a request's teamId to its equipment's teamId, and
\* no later call (assignRequest, updateStatus, completeRequest, scrapRequest,
\* updateEquipment, the user and team calls) changes it.
C22_TeamIdFixed == [][TeamIdFixedStep]_vars

\* the equipment of a request has just been moved to another team and the
\* request has kept the team it was created with
C22_Witness ==
  /\ last.op = "updateEquipment"
  /\ last.result = "ok"
  /\ Len(requests) >= 1
  /\ requests[1].teamId = 1
  /\ equipment[requests[1].equipmentId].teamId = 2
  /\ users[3].teamId = 2

\* C23: in every reachable state, the assignee of every assigned request is
\* an existing user whose role is TECHNICIAN and whose teamId is the
\* request's.
C23_AssigneeValid ==
  \A requestId \in ExistingRequests :
    requests[requestId].assignedTo # Null =>
      /\ UserExists(users, requests[requestId].assignedTo)
      /\ users[requests[requestId].assignedTo].role = "TECHNICIAN"
      /\ users[requests[requestId].assignedTo].teamId = requests[requestId].teamId

\* every teamId stored in a user, equipment or request row is a stored team
TeamReferencesExist ==
  /\ \A u \in DOMAIN users : users[u].teamId # Null => users[u].teamId \in teams
  /\ \A e \in DOMAIN equipment : equipment[e].teamId \in teams
  /\ \A requestId \in ExistingRequests : requests[requestId].teamId \in teams

\* C26: in every reachable state, deleteTeam of a team that a user, an
\* equipment or a request references ends with VALIDATION_ERROR and leaves the
\* teams as they were, and every stored teamId refers to a stored team.
C26_TeamNotDeletedWhileOwning ==
  /\ TeamReferencesExist
  /\ \A teamId \in teams :
       LET out == deleteTeam(teams, users, equipment, requests, teamId)
           owning == \/ \E u \in DOMAIN users : users[u].teamId = teamId
                     \/ \E e \in DOMAIN equipment : equipment[e].teamId = teamId
                     \/ \E r \in ExistingRequests : requests[r].teamId = teamId
       IN IF owning
          THEN out.result = "VALIDATION_ERROR" /\ out.teams = teams /\ out.users = users
          ELSE out.result = "ok" /\ out.teams = teams \ {teamId}

\* deleteTeam has just been refused for a team whose only reference is a
\* request (its user has left it, its equipment has moved to the other team)
C26_Witness ==
  /\ last.op = "deleteTeam"
  /\ last.result = "VALIDATION_ERROR"
  /\ teams = TeamIds
  /\ \A u \in DOMAIN users : users[u].teamId # 2
  /\ \A e \in DOMAIN equipment : equipment[e].teamId # 2
  /\ \E requestId \in ExistingRequests : requests[requestId].teamId = 2

AllQueries ==
  [teamId : TeamIds \cup {Null}, assignedTo : UserIds \cup {Null},
   status : Statuses \cup {NoStatus}]

\* C27: every request a listing by a MANAGER or a TECHNICIAN returns, for
\* every query, is of the actor's team or assigned to the actor.
C27_ListingScoped ==
  [][\A userId \in DOMAIN users, query \in AllQueries :
       (/\ users[userId].role \in {"MANAGER", "TECHNICIAN"}
        /\ GetRequestsCall(userId, query))
       => \A requestId \in getRequests(requests,
                                       roleFilters(users[userId], userId, query)) :
            \/ requests[requestId].teamId = users[userId].teamId
            \/ requests[requestId].assignedTo = userId]_vars

\* the errors a request-service call raises by itself
BusinessErrors ==
  {"REQUEST_NOT_FOUND", "USER_NOT_FOUND", "EQUIPMENT_NOT_FOUND", "VALIDATION_ERROR",
   "INSUFFICIENT_PERMISSIONS", "TEAM_ACCESS_DENIED", "INVALID_STATUS_TRANSITION",
   "TEAM_ASSIGNMENT_MISMATCH", "EQUIPMENT_SCRAPPED"}

\* a call that ended with one of those errors left the store as it found it,
\* and a call ends with one of them or in success
Framed(out) ==
  /\ out.result \in BusinessErrors \cup {"ok"}
  /\ out.result \in BusinessErrors
       => (out.requests = requests /\ out.equipment = equipment /\ out.logs = logs)

\* C24: in every reachable state, each of the five operations, for every
\* input on which it ends with a NotFound, validation, permission, transition,
\* team-mismatch or equipment-scrapped error, leaves requests, equipment and
\* logs exactly as they were.
C24_FailureFrame ==
  /\ \A type \in Types, equipmentId \in EquipmentIdInputs, scheduledDate \in AllDates,
        createdBy \in AllUserInputs :
       Framed(createRequest(users, equipment, requests, logs,
                            type, equipmentId, scheduledDate, createdBy, "none"))
  /\ \A requestId \in RequestIdInputs, technicianId \in AllUserInputs,
        assignedBy \in UserIds :
       Framed(assignRequest(users, equipment, requests, logs,
                            requestId, technicianId, assignedBy, "none"))
  /\ \A requestId \in RequestIdInputs, newStatus \in Statuses, userId \in AllUserInputs :
       Framed(updateStatus(users, equipment, requests, logs,
                           requestId, newStatus, userId, "none"))
  /\ \A requestId \in RequestIdInputs, durationHours \in AllDurations,
        userId \in AllUserInputs :
       Framed(completeRequest(users, equipment, requests, logs,
                              requestId, durationHours, userId, "none"))
  /\ \A requestId \in RequestIdInputs, userId \in AllUserInputs :
       Framed(scrapRequest(users, equipment, requests, logs, requestId, userId, "none"))

\* scrapRequest by a technician who is not the assignee has just been refused
\* and the request, its equipment and its two log rows are as they were
C24_Witness ==
  /\ last.op = "scrapRequest"
  /\ last.result = "INSUFFICIENT_PERMISSIONS"
  /\ Len(requests) = 1
  /\ requests[1].status = "IN_PROGRESS"
  /\ requests[1].assignedTo = 3
  /\ ~equipment[requests[1].equipmentId].isScrapped
  /\ Len(logs) = 2

\* C28: in every reachable state of calls run to completion, the log rows of
\* each request in append order start with (null, NEW), have no other row with
\* a null oldStatus, continue each with the newStatus of the row before as
\* oldStatus, and end with the request's current status as newStatus.
C28_LogChain ==
  \A requestId \in ExistingRequests :
    LET rows == LogsOf(logs, requestId)
    IN /\ Len(rows) >= 1
       /\ rows[1].oldStatus = NoStatus
       /\ rows[1].newStatus = "NEW"
       /\ \A i \in 2 .. Len(rows) :
            /\ rows[i].oldStatus # NoStatus
            /\ rows[i].oldStatus = rows[i - 1].newStatus
       /\ rows[Len(rows)].newStatus = requests[requestId].status

\* two requests whose rows interleave in the log, each a chain of its own
C28_Witness ==
  /\ Len(requests) = 2
  /\ logs = <<LogRow(1, NoStatus, "NEW", 2), LogRow(2, NoStatus, "NEW", 2),
              LogRow(1, "NEW", "IN_PROGRESS", 1)>>
  /\ requests[1].status = "IN_PROGRESS"
  /\ requests[2].status = "NEW"

C25_SchedulingBoundary ==
  /\ sched.scheduled = "twoYears" => sched.result = "ok"
  /\ sched.scheduled = "twoYearsAndOneDay" => sched.result = "VALIDATION_ERROR"
  /\ sched.scheduled = "missing" => sched.result = "VALIDATION_ERROR"
  /\ sched.scheduled = "yesterday" => sched.result = "VALIDATION_ERROR"

\* C30: under every interleaving of a createRequest with scrapEquipment and
\* scrapRequest calls, a step that writes a request row writes it for an
\* equipment whose isScrapped flag is false at that moment.
C30_NoRequestAfterScrap ==
  [][Len(requests') > Len(requests)
       => ~equipment[requests'[Len(requests')].equipmentId].isScrapped]_vars

====
